---- MODULE Spec2Model ----
(***************************************************************************)
(* plot.py: load loss.csv with pandas.read_csv(header=None,                *)
(* names=["Epoch","Loss"]), plot Loss against Epoch with matplotlib and    *)
(* save the figure as my_plot.png.  The script is three library calls in   *)
(* a row; the process is modelled as load -> render -> write with an       *)
(* uncaught exception ending the run at any of them.  The working          *)
(* directory is a map from file names to contents, so that repeated runs   *)
(* of the script can be followed.                                          *)
(*                                                                         *)
(* A csv field is a sequence of characters; a line is a sequence of        *)
(* fields (the text between the commas); a file is a sequence of lines.    *)
(* Inputs hold no blank lines and no quoted fields.                        *)
(* A parsed number is the exact decimal <<mantissa, fractional digits>>    *)
(* with trailing zeros removed, so "1" and "1.0" are the same number.      *)
(***************************************************************************)
EXTENDS Integers, Sequences, FiniteSets, TLC

VARIABLES fs,          \* working directory: file name -> content
          outWritable, \* whether my_plot.png can be opened for writing
          pc,          \* "load", "render", "write", "done", "error"
          df,          \* << >> before the load, <<table>> after it
          fig,         \* << >> before the plot, <<figure>> after it
          exitStatus,  \* << >> while running, <<0>> or <<1>> at exit
          error,       \* name of the uncaught exception, "" if none
          trace,       \* the steps entered in this run, in order
          fs0,         \* the working directory when this run started
          run,         \* number of the current run of the script
          prev         \* << >> in the first run, else <<input and exit
                       \* status of the run before this one>>

vars == <<fs, outWritable, pc, df, fig, exitStatus, error, trace, fs0, run,
         prev>>

-----------------------------------------------------------------------------
(* Bounds and the sample input lines *)

MaxRows == 3
MaxRuns == 2

InputName == "loss.csv"
OutputName == "my_plot.png"
Names == <<"Epoch", "Loss">>

RowA == << <<"1">>, <<"2", ".", "5">> >>               \* 1,2.5
RowB == << <<"2">>, <<"2", ".", "1">> >>               \* 2,2.1
RowBad == << <<"a", "b", "c">>, <<"1", ".", "0">> >>   \* abc,1.0
RowShort == << <<"5">> >>                              \* 5
RowLong == << <<"1">>, <<"2", ".", "5">>, <<"7">> >>   \* 1,2.5,7
RowBadLoss == << <<"3">>, <<"a", "b", "c">> >>         \* 3,abc

SampleRows == {RowA, RowB, RowBad, RowShort, RowLong, RowBadLoss}

RECURSIVE FilesUpTo(_)
FilesUpTo(n) ==
    IF n = 0 THEN {<< >>}
    ELSE LET shorter == FilesUpTo(n - 1)
         IN  shorter \cup {Append(f, r) : f \in {g \in shorter : Len(g) = n - 1},
                                          r \in SampleRows}

Inputs == FilesUpTo(MaxRows)

\* what may already lie under the output name before the first run
OldImage == <<"OLD">>

-----------------------------------------------------------------------------
(* Number parsing, as the csv reader's column conversion does it *)

DigitVal == [c \in {"0", "1", "2", "3", "4", "5", "6", "7", "8", "9"} |->
               CASE c = "0" -> 0 [] c = "1" -> 1 [] c = "2" -> 2 [] c = "3" -> 3
                 [] c = "4" -> 4 [] c = "5" -> 5 [] c = "6" -> 6 [] c = "7" -> 7
                 [] c = "8" -> 8 [] c = "9" -> 9]

IsDigit(c) == c \in DOMAIN DigitVal

Max(a, b) == IF a >= b THEN a ELSE b

\* an empty field, and a field a short line does not have, read as missing
IsNA(tok) == tok = << >>

IsInteger(tok) == Len(tok) > 0 /\ \A i \in 1..Len(tok) : IsDigit(tok[i])

IsFloat(tok) ==
    /\ \E i \in 1..Len(tok) : IsDigit(tok[i])
    /\ \A i \in 1..Len(tok) : IsDigit(tok[i]) \/ tok[i] = "."
    /\ Cardinality({i \in 1..Len(tok) : tok[i] = "."}) <= 1

RECURSIVE DigitsValue(_)
DigitsValue(ds) ==
    IF ds = << >> THEN 0
    ELSE 10 * DigitsValue(SubSeq(ds, 1, Len(ds) - 1)) + DigitVal[ds[Len(ds)]]

RECURSIVE Normalize(_, _)
Normalize(mant, frac) ==
    IF frac > 0 /\ mant % 10 = 0 THEN Normalize(mant \div 10, frac - 1)
    ELSE <<mant, frac>>

ParseNum(tok) ==
    LET dots == {i \in 1..Len(tok) : tok[i] = "."}
        digits == SelectSeq(tok, IsDigit)
        frac == IF dots = {} THEN 0 ELSE Len(tok) - (CHOOSE i \in dots : TRUE)
    IN  Normalize(DigitsValue(digits), frac)

NumCell(tok) == LET n == ParseNum(tok)
                IN  [kind |-> "num", mant |-> n[1], frac |-> n[2], text |-> << >>]
NaN == [kind |-> "nan", mant |-> 0, frac |-> 0, text |-> << >>]
StrCell(tok) == [kind |-> "str", mant |-> 0, frac |-> 0, text |-> tok]

-----------------------------------------------------------------------------
(* pandas.read_csv(path, header=None, names=Names) *)

\* the default header=0 would take the first line as the column labels
DataLinesHeaderZero(lines) == IF lines = << >> THEN lines ELSE Tail(lines)
\* header=None: no line is taken as a header, every line is data.
DataLines(lines) == lines

\* The tokenizer accepts the first line with any number of fields; from then
\* on a line may hold at most max(fields of the first line, number of names).
ExpectedFields(lines) == Max(Len(lines[1]), Len(Names))

BadLines(lines) ==
    {i \in 2..Len(lines) : Len(lines[i]) > ExpectedFields(lines)}

\* a short line is filled up with missing fields
Pad(row, width) == [j \in 1..width |-> IF j <= Len(row) THEN row[j] ELSE << >>]

\* Type inference of one column: int64, else float64 (missing -> NaN), else
\* the column is kept as text (object), missing fields as NaN.
InferDtype(toks) ==
    IF toks = << >> THEN "object"
    ELSE IF \A i \in 1..Len(toks) : IsInteger(toks[i]) THEN "int64"
    ELSE IF \A i \in 1..Len(toks) : IsFloat(toks[i]) \/ IsNA(toks[i]) THEN "float64"
    ELSE "object"

ConvertColumn(toks) ==
    LET dt == InferDtype(toks)
    IN  [dtype |-> dt,
         values |-> [i \in 1..Len(toks) |->
                       IF IsNA(toks[i]) THEN NaN
                       ELSE IF dt = "object" THEN StrCell(toks[i])
                       ELSE NumCell(toks[i])]]

\* Names label the LAST Len(Names) columns; the columns before them (there
\* are some when the first line has more fields than there are names)
\* become the index of the table.
LeadingCols(width) == width - Len(Names)

BuildTable(lines) ==
    LET width == IF lines = << >> THEN Len(Names) ELSE ExpectedFields(lines)
        rows == [i \in 1..Len(lines) |-> Pad(lines[i], width)]
        col(j) == ConvertColumn([i \in 1..Len(rows) |-> rows[i][j]])
        lead == LeadingCols(width)
    IN  [index |-> [j \in 1..lead |-> col(j)],
         Epoch |-> col(lead + 1),
         Loss |-> col(lead + 2)]

ReadCsv(dir) ==
    IF InputName \notin DOMAIN dir
    THEN [ok |-> FALSE, error |-> "FileNotFoundError", table |-> << >>]
    ELSE LET lines == DataLines(dir[InputName])
         IN  IF lines # << >> /\ BadLines(lines) # {}
             THEN [ok |-> FALSE, error |-> "ParserError", table |-> << >>]
             ELSE [ok |-> TRUE, error |-> "", table |-> <<BuildTable(lines)>>]

-----------------------------------------------------------------------------
(* matplotlib: plt.figure ... plt.grid *)

\* a variant that reorders the points
Reverse(s) == [i \in 1..Len(s) |-> s[Len(s) + 1 - i]]
PlotLineReordered(x, y) ==
    [x |-> Reverse(x), y |-> Reverse(y), label |-> "Training Loss"]
\* plt.plot(x, y, label=...): the line keeps the two series as handed over
PlotLine(x, y) == [x |-> x, y |-> y, label |-> "Training Loss"]

\* A text column is plotted on a categorical axis, which takes text only: a
\* column holding text and NaN together is refused with a TypeError.
\* Numeric columns (NaN included) and empty columns are plotted as they are.
Plottable(column) ==
    \/ column.dtype # "object"
    \/ \A i \in 1..Len(column.values) : column.values[i].kind = "str"

Render(table) ==
    IF Plottable(table.Epoch) /\ Plottable(table.Loss)
    THEN [ok |-> TRUE, error |-> "",
          figure |-> <<[figsize |-> <<8, 5>>,
                        lines |-> <<PlotLine(table.Epoch.values, table.Loss.values)>>,
                        xlabel |-> "Epoche",
                        ylabel |-> "Loss (Cross-Entropy)",
                        title |-> "Loss-Verlauf des Trainings",
                        legend |-> TRUE,
                        grid |-> TRUE]>>]
    ELSE [ok |-> FALSE, error |-> "TypeError", figure |-> << >>]

-----------------------------------------------------------------------------
(* plt.savefig('my_plot.png') *)

\* the image file: a signature followed by the drawn figure
Png(figure) == <<"PNG", figure>>

WriteFile(dir, name, content) ==
    [n \in DOMAIN dir \cup {name} |-> IF n = name THEN content ELSE dir[n]]

\* a variant that numbers the output instead of replacing it
SavefigVersioned(dir, figure) ==
    IF OutputName \in DOMAIN dir
    THEN WriteFile(dir, "my_plot_1.png", Png(figure))
    ELSE WriteFile(dir, OutputName, Png(figure))
\* plt.show() in place of plt.savefig: nothing is written
SavefigShowOnly(dir, figure) == dir
\* the fixed name is opened for writing and any earlier content replaced
Savefig(dir, figure) == WriteFile(dir, OutputName, Png(figure))

-----------------------------------------------------------------------------
(* The process *)

\* a variant in which the exception is caught and dropped
ExitCodeSwallowed(err) == 0
\* An exception nobody catches ends the interpreter with status 1.
ExitCode(err) == IF err = "" THEN 0 ELSE 1

Init ==
    /\ \E f \in Inputs, present \in BOOLEAN, old \in BOOLEAN :
         fs = [n \in (IF present THEN {InputName} ELSE {})
                       \cup (IF old THEN {OutputName} ELSE {}) |->
                 IF n = InputName THEN f ELSE OldImage]
    /\ outWritable \in BOOLEAN
    /\ pc = "load"
    /\ df = << >>
    /\ fig = << >>
    /\ exitStatus = << >>
    /\ error = ""
    /\ trace = << >>
    /\ fs0 = fs
    /\ run = 1
    /\ prev = << >>

Fail(err) ==
    /\ pc' = "error"
    /\ error' = err
    /\ exitStatus' = <<ExitCode(err)>>

\* a variant that removes a stale image before loading
LoaderClearsOutput ==
    /\ pc = "load"
    /\ trace' = Append(trace, "load")
    /\ fs' = [n \in DOMAIN fs \ {OutputName} |-> fs[n]]
    /\ LET r == ReadCsv(fs)
       IN  IF r.ok
           THEN /\ df' = r.table
                /\ pc' = "render"
                /\ UNCHANGED <<error, exitStatus>>
           ELSE /\ Fail(r.error)
                /\ UNCHANGED df
    /\ UNCHANGED <<outWritable, fig, fs0, run, prev>>
\* line 5: df = pd.read_csv(...)
Loader ==
    /\ pc = "load"
    /\ trace' = Append(trace, "load")
    /\ LET r == ReadCsv(fs)
       IN  IF r.ok
           THEN /\ df' = r.table
                /\ pc' = "render"
                /\ UNCHANGED <<error, exitStatus>>
           ELSE /\ Fail(r.error)
                /\ UNCHANGED df
    /\ UNCHANGED <<fs, outWritable, fig, fs0, run, prev>>

\* lines 8-14
Renderer ==
    /\ pc = "render"
    /\ trace' = Append(trace, "render")
    /\ LET r == Render(df[1])
       IN  IF r.ok
           THEN /\ fig' = r.figure
                /\ pc' = "write"
                /\ UNCHANGED <<error, exitStatus>>
           ELSE /\ Fail(r.error)
                /\ UNCHANGED fig
    /\ UNCHANGED <<fs, outWritable, df, fs0, run, prev>>

\* line 16, and the end of the script
Writer ==
    /\ pc = "write"
    /\ trace' = Append(trace, "write")
    /\ IF outWritable
       THEN /\ fs' = Savefig(fs, fig[1])
            /\ pc' = "done"
            /\ exitStatus' = <<ExitCode("")>>
            /\ UNCHANGED error
       ELSE /\ Fail("PermissionError")
            /\ UNCHANGED fs
    /\ UNCHANGED <<outWritable, df, fig, fs0, run, prev>>

\* Between two runs loss.csv stays as it is, gains a line (training went
\* on), or is emptied (a new training starts).
NextInputs(f) ==
    {f, << >>} \cup (IF Len(f) < MaxRows THEN {Append(f, r) : r \in SampleRows} ELSE {})

\* the script is started again in the same directory
Rerun ==
    /\ pc \in {"done", "error"}
    /\ run < MaxRuns
    /\ run' = run + 1
    /\ prev' = <<[input |-> IF InputName \in DOMAIN fs THEN <<fs[InputName]>> ELSE << >>,
                  status |-> exitStatus[1]]>>
    /\ IF InputName \in DOMAIN fs
       THEN \E f \in NextInputs(fs[InputName]) : fs' = WriteFile(fs, InputName, f)
       ELSE fs' = fs
    /\ fs0' = fs'
    /\ pc' = "load"
    /\ df' = << >>
    /\ fig' = << >>
    /\ exitStatus' = << >>
    /\ error' = ""
    /\ trace' = << >>
    /\ UNCHANGED outWritable

Next == Loader \/ Renderer \/ Writer \/ Rerun

Spec == Init /\ [][Next]_vars

-----------------------------------------------------------------------------
(* Properties *)

HasInput == InputName \in DOMAIN fs
Input == fs[InputName]
Loaded == df # << >>
Rendered == fig # << >>
Exited == pc \in {"done", "error"}
Steps == <<"load", "render", "write">>
OutputFiles == DOMAIN fs \ {InputName}

IsNumeric(tok) == IsFloat(tok)

\* N >= 1 lines, each of exactly two numeric fields
WellFormed(f) ==
    /\ Len(f) >= 1
    /\ \A i \in 1..Len(f) : Len(f[i]) = 2 /\ IsNumeric(f[i][1]) /\ IsNumeric(f[i][2])

Num(m, f) == [kind |-> "num", mant |-> m, frac |-> f, text |-> << >>]

\* C1: for a well-formed input of N lines the loaded table has exactly N
\* records and no index column, and record i holds the numbers written in the
\* first (Epoch) and second (Loss) field of line i: no line is taken as a
\* header, dropped, duplicated or moved.
C1_LoaderFaithful ==
    (HasInput /\ WellFormed(Input) /\ pc # "load") =>
        /\ Loaded
        /\ df[1].index = << >>
        /\ Len(df[1].Epoch.values) = Len(Input)
        /\ Len(df[1].Loss.values) = Len(Input)
        /\ \A i \in 1..Len(Input) :
             /\ df[1].Epoch.values[i] = NumCell(Input[i][1])
             /\ df[1].Loss.values[i] = NumCell(Input[i][2])

\* the rows 2,2.1 / 1,2.5 / 2,2.1 are loaded as (2, 2.1), (1, 2.5), (2, 2.1)
C1_Witness ==
    /\ HasInput /\ Input = <<RowB, RowA, RowB>> /\ Loaded
    /\ df[1].Epoch.values = <<Num(2, 0), Num(1, 0), Num(2, 0)>>
    /\ df[1].Loss.values = <<Num(21, 1), Num(25, 1), Num(21, 1)>>

\* C2: once the figure is drawn, its line's x-series is the table's Epoch
\* column and its y-series the Loss column, element by element; for a
\* well-formed input these are the numbers of the file's lines in file order,
\* whether or not the epochs ascend or repeat.
C2_SeriesAreColumns ==
    Rendered =>
        /\ Len(fig[1].lines) = 1
        /\ fig[1].lines[1].x = df[1].Epoch.values
        /\ fig[1].lines[1].y = df[1].Loss.values
        /\ (HasInput /\ WellFormed(Input)) =>
             /\ Len(fig[1].lines[1].x) = Len(Input)
             /\ Len(fig[1].lines[1].y) = Len(Input)
             /\ \A i \in 1..Len(Input) :
                  /\ fig[1].lines[1].x[i] = NumCell(Input[i][1])
                  /\ fig[1].lines[1].y[i] = NumCell(Input[i][2])

\* epochs 2, 1, 2 (descending, then a duplicate) are plotted as 2, 1, 2
C2_Witness ==
    /\ Rendered /\ HasInput /\ Input = <<RowB, RowA, RowB>>
    /\ fig[1].lines[1].x = <<Num(2, 0), Num(1, 0), Num(2, 0)>>
    /\ fig[1].lines[1].y = <<Num(21, 1), Num(25, 1), Num(21, 1)>>

HasNonNumericField(f) ==
    \E i \in 1..Len(f) : \E j \in 1..Len(f[i]) :
        ~IsNA(f[i][j]) /\ ~IsNumeric(f[i][j])

\* C3: an input with a non-numeric field ends the run in the error state
\* during the load; render and write are never entered.
C3_NonNumericFailsAtLoad ==
    (HasInput /\ HasNonNumericField(Input) /\ pc # "load") =>
        (pc = "error" /\ trace = <<"load">>)

\* C4: an empty input file ends the run in the error state and no image is
\* written.
C4_EmptyInputFails ==
    (HasInput /\ Input = << >> /\ Exited) => (pc = "error" /\ fs = fs0)

\* the figure the script draws from the lines f
FigureOf(f) == Render(BuildTable(f)).figure[1]

\* C5: after a successful run my_plot.png is the only file besides the
\* input, it is the image of the figure of this run's input alone, and a
\* successful run on the input of the successful run before it leaves the
\* same content.
C5_OverwriteDeterministic ==
    pc = "done" =>
        /\ OutputFiles = {OutputName}
        /\ fs[OutputName] = Png(FigureOf(Input))
        /\ (prev # << >> /\ prev[1].status = 0 /\ prev[1].input = <<Input>>) =>
             fs[OutputName] = fs0[OutputName]

\* a second successful run, on another input than the first, has replaced
\* the first run's image
C5_Witness ==
    /\ pc = "done" /\ run = 2 /\ prev[1].status = 0
    /\ prev[1].input = <<<<RowA>>>> /\ Input = <<RowA, RowB>>
    /\ fs0[OutputName] = Png(FigureOf(<<RowA>>))
    /\ fs[OutputName] # fs0[OutputName]
    /\ OutputFiles = {OutputName}

\* C6: a run that ends with status 0 has entered the write step and left a
\* non-empty my_plot.png holding this run's figure.
C6_SuccessHasOutput ==
    exitStatus = <<0>> =>
        /\ pc = "done"
        /\ trace = Steps
        /\ OutputName \in DOMAIN fs
        /\ Len(fs[OutputName]) > 0
        /\ fs[OutputName] = Png(fig[1])

\* a valid 3-row input, no image before the run, the image after it
C6_Witness ==
    /\ exitStatus = <<0>> /\ WellFormed(Input) /\ Len(Input) = 3
    /\ OutputName \notin DOMAIN fs0 /\ OutputName \in DOMAIN fs

\* C7: a run that has failed stays failed (status 1, no further step), and
\* an ended run has status 0 exactly if load, render and write all completed.
C7_FailuresFatal ==
    /\ error # "" => (pc = "error" /\ exitStatus = <<1>>)
    /\ pc = "error" => error \in {"FileNotFoundError", "ParserError",
                                  "TypeError", "PermissionError"}
    /\ Exited =>
         /\ exitStatus \in {<<0>>, <<1>>}
         /\ exitStatus = <<0>> <=>
              (trace = Steps /\ Loaded /\ Rendered /\ error = ""
               /\ OutputName \in DOMAIN fs /\ fs[OutputName] = Png(fig[1]))
    /\ ~Exited => (exitStatus = << >> /\ error = "")

\* the output cannot be written: load and render completed, status 1
C7_Witness ==
    /\ pc = "error" /\ error = "PermissionError" /\ exitStatus = <<1>>
    /\ trace = Steps /\ Loaded /\ Rendered

HasShortRow(f) == \E i \in 1..Len(f) : Len(f[i]) < 2

\* C8: an input with a line of fewer than two fields ends the run in the
\* error state during the load.
C8_ShortRowFailsAtLoad ==
    (HasInput /\ HasShortRow(Input) /\ pc # "load") =>
        (pc = "error" /\ trace = <<"load">>)

IsPrefix(s, t) == Len(s) <= Len(t) /\ \A i \in 1..Len(s) : s[i] = t[i]

\* C9: the steps of a run are entered in the order load, render, write, each
\* at most once; the directory differs from what it was at the start of the
\* run only after a completed write, so a failed load or render leaves an
\* existing my_plot.png as it was.
C9_StrictOrder ==
    /\ IsPrefix(trace, Steps)
    /\ pc = "load" <=> trace = << >>
    /\ pc = "render" <=> (trace = <<"load">> /\ Loaded /\ ~Rendered /\ error = "")
    /\ pc = "write" <=> (trace = <<"load", "render">> /\ Rendered /\ error = "")
    /\ pc = "done" => trace = Steps
    /\ fs # fs0 => (pc = "done" /\ trace = Steps /\ Loaded /\ Rendered)
    /\ (pc = "error" /\ trace # Steps) => fs = fs0

\* the renderer fails in a second run: the first run's image is still there
C9_Witness ==
    /\ pc = "error" /\ error = "TypeError" /\ trace = <<"load", "render">>
    /\ run = 2 /\ prev[1].status = 0
    /\ OutputName \in DOMAIN fs /\ fs[OutputName] # OldImage
    /\ fs = fs0

AtLeastTwoFields(f) == \A i \in 1..Len(f) : Len(f[i]) >= 2

CellOf(tok, column) ==
    IF IsNA(tok) THEN NaN
    ELSE IF column.dtype = "object" THEN StrCell(tok) ELSE NumCell(tok)

\* C10: when every line has at least two fields, Epoch holds the lines'
\* first fields and Loss their second fields.
C10_FirstTwoFields ==
    (HasInput /\ AtLeastTwoFields(Input) /\ Loaded) =>
        /\ Len(df[1].Epoch.values) = Len(Input)
        /\ Len(df[1].Loss.values) = Len(Input)
        /\ \A i \in 1..Len(Input) :
             /\ df[1].Epoch.values[i] = CellOf(Input[i][1], df[1].Epoch)
             /\ df[1].Loss.values[i] = CellOf(Input[i][2], df[1].Loss)

====
